---- MODULE Spec2Model ----
(***************************************************************************)
(* Model of the legal-council-ai orchestration engines.                    *)
(*                                                                         *)
(* Two LangGraph state graphs are modelled: the multi-stage engine         *)
(* (src/src/core/engine.py, served by src/src/main.py) and the unified     *)
(* engine (src/src/core/unified_engine.py, served by                       *)
(* src/src/unified_main.py).  A graph run is a sequence of supersteps: the *)
(* nodes scheduled in a superstep read the same state, their patches are   *)
(* merged into the checkpointed state when the last of them has returned,  *)
(* and the nodes their edges name form the next superstep.  A node that    *)
(* raises aborts the run and the patches of its superstep are dropped.     *)
(*                                                                         *)
(* Collaborators (the chat model, the structured-output agents, the        *)
(* embedding store) are nondeterministic: every node draws the outcome of  *)
(* its collaborator call from a small set.                                 *)
(***************************************************************************)
EXTENDS Integers, Sequences, FiniteSets, TLC

\* ---------------------------------------------------------------------
\* Bounds of the model
\* ---------------------------------------------------------------------
MaxRequests == 2
MaxToolRounds == 1
MaxChunks == 4
MaxRuns == 2

\* ---------------------------------------------------------------------
\* Program constants
\* ---------------------------------------------------------------------
MaxTries == 2
TopK == 3
ValidatorLimit == 2000
DiscoveryLimit == 30000
BrainLimit == 15000

\* thread ids (one checkpointed AgentState each)
Sessions == {"t1", "t2"}

Missing == "missing"
NoneV == "None"

Texts == {"", "doc"}

Engines == {"multi", "unified"}
\* USE_LOCAL_AI, read by every get_*_agent() call
Backends == {"local", "cloud"}

Fields ==
    {"messages", "raw_text", "discovery", "analysis", "final_summary",
     "mode", "is_legal", "errors"}

VALIDATION_ERROR == "The uploaded file does not appear to be a legal document."
NOT_LEGAL_ERROR == "Not a recognized legal document."
DISCOVERY_ERROR == "Discovery error"
ANALYSIS_ERROR == "Analysis error"
TRANSLATION_ERROR == "Translation error"
BRAIN_ERROR == "Brain error"

VARIABLES
    engine,      \* which graph create_legal_engine() built
    threads,     \* thread ids the clients of this deployment use
    state,       \* state[s]: checkpointed AgentState of thread s
    todo,        \* todo[s]: nodes of the current superstep still to run
    pend,        \* pend[s]: patches returned in the current superstep
    nxt,         \* nxt[s]: nodes triggered for the next superstep
    status,      \* status[s]: "idle", "running", "done" or "aborted"
    trace,       \* trace[s]: nodes executed in the current run, in order
    out,         \* out[s]: the update the latest node execution streamed
    doc_store,   \* thread ids registered by the front end
    index,       \* the shared retrieval index: sequence of indexed entries
    nreq,        \* requests issued so far
    llmCalls,    \* llmCalls[s]: chat-model invocations in the current run
    stageCalls,  \* stageCalls[s]: invocations in the latest chat_agent execution
    stageLeaks,  \* stageLeaks[s]: leaked responses seen in that execution
    toolRounds,  \* toolRounds[s]: tool executions in the current run
    rtState,     \* an arbitrary AgentState handed to route_entry
    rtResult,    \* what route_entry returned for it
    hits,        \* the latest call of query_contract and what it returned
    runs,        \* the executions of the function under study on rtState, in order
    chatResp     \* the latest response of the front end to a POST /chat

runVars == <<state, todo, pend, nxt, status, trace, out>>
chatVars == <<llmCalls, stageCalls, stageLeaks, toolRounds>>
fnVars == <<rtState, rtResult, hits, runs, chatResp>>

vars ==
    <<engine, threads, state, todo, pend, nxt, status, trace, out,
      doc_store, index, nreq, llmCalls, stageCalls, stageLeaks, toolRounds,
      rtState, rtResult, hits, runs, chatResp>>

\* ---------------------------------------------------------------------
\* Messages
\* ---------------------------------------------------------------------
Markups == {"none", "function_calls", "invoke"}

HumanMessage == [role |-> "human", markup |-> "none", tool_calls |-> FALSE, fallback |-> FALSE]
ToolMessage == [role |-> "tool", markup |-> "none", tool_calls |-> FALSE, fallback |-> FALSE]
fallback_response == [role |-> "ai", markup |-> "none", tool_calls |-> FALSE, fallback |-> TRUE]
\* the system prompt and the corrective instruction of the chat stage
SystemMessage == [role |-> "system", markup |-> "none", tool_calls |-> FALSE, fallback |-> FALSE]

AIMessage(mk, tc) == [role |-> "ai", markup |-> mk, tool_calls |-> tc, fallback |-> FALSE]

\* what the chat model can answer: text with or without leaked markup,
\* with or without a structured tool request
Responses == {AIMessage(mk, tc) : mk \in Markups, tc \in BOOLEAN}

\* the test of unified_engine.chat_agent for hallucinated XML
HasLeak(m) == m.markup = "function_calls" \/ m.markup = "invoke"

\* a channel without the reducer: the new value overwrites the history
add_messages_overwrite(left, right) == right

\* langgraph add_messages: messages without a matching id are appended
add_messages(left, right) == left \o right

\* ---------------------------------------------------------------------
\* State and patches
\* ---------------------------------------------------------------------
EmptyState ==
    [messages |-> <<>>, raw_text |-> Missing, discovery |-> Missing,
     analysis |-> Missing, final_summary |-> Missing, mode |-> Missing,
     is_legal |-> Missing, errors |-> <<>>]

\* errors declared with a concatenating reducer
ApplyField_errors_appended(f, old, new) ==
    IF f = "messages" THEN add_messages(old, new)
    ELSE IF f = "errors" THEN old \o new
    ELSE new

\* channel update: messages goes through its reducer, every other
\* channel keeps the last value written
ApplyField(f, old, new) ==
    IF f = "messages" THEN add_messages(old, new) ELSE new

\* a merge that rebuilds the state from the patch alone
Merge_erasing(st, patch) ==
    [f \in Fields |->
        IF f \in DOMAIN patch
        THEN ApplyField(f, st[f], patch[f])
        ELSE IF f = "messages" \/ f = "errors" THEN <<>> ELSE Missing]

Merge(st, patch) ==
    [f \in Fields |->
        IF f \in DOMAIN patch THEN ApplyField(f, st[f], patch[f]) ELSE st[f]]

RECURSIVE ApplyAll(_, _)
ApplyAll(st, patches) ==
    IF patches = <<>> THEN st
    ELSE ApplyAll(Merge(st, Head(patches)), Tail(patches))

\* state.get(key): a missing key reads as None
Get(st, f) == IF st[f] = Missing THEN NoneV ELSE st[f]

\* truthiness of an optional record or string
Truthy(v) == v \notin {Missing, NoneV, ""}

\* ---------------------------------------------------------------------
\* Routers
\* ---------------------------------------------------------------------
\* route_entry without the guard on errors
route_entry_multi_no_guard(st) ==
    LET mode == IF st.mode = Missing THEN "analyze" ELSE st.mode
    IN  IF mode = "analyze" THEN "validator"
        ELSE IF mode = "chat"
             THEN IF Truthy(Get(st, "final_summary"))
                  THEN "chat_agent"
                  ELSE "validator"
             ELSE "validator"

\* route_entry that takes the chat path whenever mode is "chat"
route_entry_multi_chat_unguarded(st) ==
    LET mode == IF st.mode = Missing THEN "analyze" ELSE st.mode
    IN  IF mode = "chat" THEN "chat_agent" ELSE "validator"

\* engine.py route_entry: state.get("mode", "analyze")
route_entry_multi(st) ==
    LET mode == IF st.mode = Missing THEN "analyze" ELSE st.mode
    IN  IF mode = "analyze" THEN "validator"
        ELSE IF mode = "chat"
             THEN IF Truthy(Get(st, "final_summary")) /\ st.errors = <<>>
                  THEN "chat_agent"
                  ELSE "validator"
             ELSE "validator"

\* route_entry that sends a chat request to the chat stage without
\* looking at final_summary
route_entry_unified_no_summary_guard(st) ==
    LET mode == Get(st, "mode")
    IN  IF mode = "analyze" THEN "brain"
        ELSE IF mode = "chat"
             THEN IF st.errors = <<>> THEN "chat_agent" ELSE "brain"
             ELSE "brain"

\* unified_engine.py route_entry: state.get("mode")
route_entry_unified(st) ==
    LET mode == Get(st, "mode")
    IN  IF mode = "analyze" THEN "brain"
        ELSE IF mode = "chat"
             THEN IF Truthy(Get(st, "final_summary")) /\ st.errors = <<>>
                  THEN "chat_agent"
                  ELSE "brain"
             ELSE "brain"

route_entry(eng, st) ==
    IF eng = "multi" THEN route_entry_multi(st) ELSE route_entry_unified(st)

route_after_validation(st) ==
    IF Get(st, "is_legal") = "True" /\ st.errors = <<>>
    THEN "discovery"
    ELSE "end"

\* a condition that never names the tool node
tools_condition_ignoring(st) == "end"

\* langgraph.prebuilt.tools_condition: the last message asks for a tool
tools_condition(st) ==
    IF st.messages # <<>> /\ st.messages[Len(st.messages)].tool_calls
    THEN "tools"
    ELSE "end"

\* the entry router node: lambda state: {"mode": state.get("mode")}
router_node(st) == [mode |-> Get(st, "mode")]

\* ---------------------------------------------------------------------
\* Superstep machinery
\* ---------------------------------------------------------------------
\* Node n of thread s returned `patch` and triggered the nodes `succ`.
Finish(s, n, patch, succ) ==
    LET pend2 == Append(pend[s], patch)
        nxt2 == nxt[s] \cup succ
        todo2 == todo[s] \ {n}
    IN  /\ trace' = [trace EXCEPT ![s] = Append(@, n)]
        /\ out' = [out EXCEPT ![s] = patch]
        /\ IF todo2 = {}
           THEN /\ state' = [state EXCEPT ![s] = ApplyAll(@, pend2)]
                /\ todo' = [todo EXCEPT ![s] = nxt2]
                /\ pend' = [pend EXCEPT ![s] = <<>>]
                /\ nxt' = [nxt EXCEPT ![s] = {}]
                /\ status' = [status EXCEPT ![s] =
                                 IF nxt2 = {} THEN "done" ELSE "running"]
           ELSE /\ state' = state
                /\ todo' = [todo EXCEPT ![s] = todo2]
                /\ pend' = [pend EXCEPT ![s] = pend2]
                /\ nxt' = [nxt EXCEPT ![s] = nxt2]
                /\ status' = status

\* Node n of thread s raised: the run ends, the superstep's patches are
\* not merged into the checkpointed state.
Abort(s, n) ==
    /\ trace' = [trace EXCEPT ![s] = Append(@, n)]
    /\ out' = [out EXCEPT ![s] = <<>>]
    /\ state' = state
    /\ todo' = [todo EXCEPT ![s] = {}]
    /\ pend' = [pend EXCEPT ![s] = <<>>]
    /\ nxt' = [nxt EXCEPT ![s] = {}]
    /\ status' = [status EXCEPT ![s] = "aborted"]

\* The consumer of the run's stream stops reading after the update of node
\* n (unified_main.py analyze_document returns on a rejected document): no
\* further superstep starts.  The update is streamed when the node returns;
\* whether the superstep's patches were committed to the checkpoint by
\* then depends on the graph runtime, so both outcomes are possible.
Abandon(s, n, patch, committed) ==
    /\ trace' = [trace EXCEPT ![s] = Append(@, n)]
    /\ out' = [out EXCEPT ![s] = patch]
    /\ state' = [state EXCEPT ![s] =
                    IF committed THEN ApplyAll(@, Append(pend[s], patch)) ELSE @]
    /\ todo' = [todo EXCEPT ![s] = {}]
    /\ pend' = [pend EXCEPT ![s] = <<>>]
    /\ nxt' = [nxt EXCEPT ![s] = {}]
    /\ status' = [status EXCEPT ![s] = "abandoned"]

\* a checkpointer that keeps one state for all thread ids
Begin_shared(s, input) ==
    /\ status[s] # "running"
    /\ nreq < MaxRequests
    /\ nreq' = nreq + 1
    /\ state' = [t \in Sessions |-> Merge(state[t], input)]
    /\ todo' = [todo EXCEPT ![s] = {"router"}]
    /\ pend' = [pend EXCEPT ![s] = <<>>]
    /\ nxt' = [nxt EXCEPT ![s] = {}]
    /\ status' = [status EXCEPT ![s] = "running"]
    /\ trace' = [trace EXCEPT ![s] = <<>>]
    /\ out' = [out EXCEPT ![s] = <<>>]
    /\ llmCalls' = [llmCalls EXCEPT ![s] = 0]
    /\ stageCalls' = [stageCalls EXCEPT ![s] = 0]
    /\ stageLeaks' = [stageLeaks EXCEPT ![s] = 0]
    /\ toolRounds' = [toolRounds EXCEPT ![s] = 0]

\* A graph run starts on thread s: the input is written through the
\* channels onto the checkpoint and the entry point is scheduled.
Begin(s, input) ==
    /\ status[s] # "running"
    /\ nreq < MaxRequests
    /\ nreq' = nreq + 1
    /\ state' = [state EXCEPT ![s] = Merge(@, input)]
    /\ todo' = [todo EXCEPT ![s] = {"router"}]
    /\ pend' = [pend EXCEPT ![s] = <<>>]
    /\ nxt' = [nxt EXCEPT ![s] = {}]
    /\ status' = [status EXCEPT ![s] = "running"]
    /\ trace' = [trace EXCEPT ![s] = <<>>]
    /\ out' = [out EXCEPT ![s] = <<>>]
    /\ llmCalls' = [llmCalls EXCEPT ![s] = 0]
    /\ stageCalls' = [stageCalls EXCEPT ![s] = 0]
    /\ stageLeaks' = [stageLeaks EXCEPT ![s] = 0]
    /\ toolRounds' = [toolRounds EXCEPT ![s] = 0]

\* ---------------------------------------------------------------------
\* Agents (src/agents): what a stage's chain returns for each outcome of
\* its collaborator call
\* ---------------------------------------------------------------------
\* Outcomes of the generation call behind a structured-output agent.
\* local: the model's raw text is JSON of the schema ("ok"), is not
\* ("malformed"), or the call fails ("error").  cloud: the structured
\* output chain yields a record ("ok"), yields nothing ("none") or
\* raises ("error").
AgentOutcomes(b) ==
    IF b = "local" THEN {"ok", "malformed", "error"} ELSE {"ok", "none", "error"}

\* extractor.py get_extraction_agent
extraction_agent(b, o) ==
    IF b = "local"
    THEN CASE o = "ok" -> "record"
           [] o = "malformed" -> "placeholder"
           [] OTHER -> "raise"
    ELSE CASE o = "ok" -> "record"
           [] o = "none" -> NoneV
           [] OTHER -> "raise"

\* analyzer.py get_analyzer_agent
analyzer_agent(b, o) ==
    IF b = "local"
    THEN CASE o = "ok" -> "record"
           [] o = "malformed" -> "placeholder"
           [] OTHER -> "raise"
    ELSE CASE o = "ok" -> "record"
           [] o = "none" -> NoneV
           [] OTHER -> "raise"

\* translator.py get_translator_agent
translator_agent(b, o) ==
    IF b = "local"
    THEN CASE o = "ok" -> "record"
           [] o = "malformed" -> "placeholder"
           [] OTHER -> "raise"
    ELSE CASE o = "ok" -> "record"
           [] o = "none" -> NoneV
           [] OTHER -> "raise"

\* unified_extractor.py get_unified_agent: the verdict of the record is
\* drawn with the outcome; local_chain parses outside any try
UnifiedOutcomes(b) ==
    IF b = "local"
    THEN {"legal", "not_legal", "malformed", "error"}
    ELSE {"legal", "not_legal", "none", "error"}

unified_agent(b, o) ==
    CASE o = "legal" -> "legal"
      [] o = "not_legal" -> "not_legal"
      [] o = "none" -> NoneV
      [] OTHER -> "raise"

\* ---------------------------------------------------------------------
\* Stage nodes: the patch a node returns
\* ---------------------------------------------------------------------
ValidatorReplies == {"YES", "yes", "NO"}

Upper(r) == IF r = "yes" THEN "YES" ELSE r

\* "YES" in response.content.upper()
ContainsYES(r) == Upper(r) = "YES"

\* a validator that adds its entry to the errors it finds
validator_node_appends(st, reply) ==
    LET is_legal == ContainsYES(reply)
    IN  [is_legal |-> IF is_legal THEN "True" ELSE "False",
         errors |-> IF is_legal THEN <<>> ELSE st.errors \o <<VALIDATION_ERROR>>]

\* a validator that reports a rejection in is_legal only
validator_node_silent(st, reply) ==
    [is_legal |-> IF ContainsYES(reply) THEN "True" ELSE "False",
     errors |-> <<>>]

\* a validator that never accepts while the state holds errors
validator_node_sticky(st, reply) ==
    LET is_legal == ContainsYES(reply) /\ st.errors = <<>>
    IN  [is_legal |-> IF is_legal THEN "True" ELSE "False",
         errors |-> IF is_legal THEN <<>> ELSE <<VALIDATION_ERROR>>]

validator_node(st, reply) ==
    LET is_legal == ContainsYES(reply)
    IN  [is_legal |-> IF is_legal THEN "True" ELSE "False",
         errors |-> IF is_legal THEN <<>> ELSE <<VALIDATION_ERROR>>]

discovery_node(st, result) ==
    IF result = "raise"
    THEN [errors |-> <<DISCOVERY_ERROR>>]
    ELSE [discovery |-> result]

analyzer_node(st, result) ==
    IF result = "raise"
    THEN [errors |-> <<ANALYSIS_ERROR>>]
    ELSE [analysis |-> result]

translator_node(st, result) ==
    IF result = "raise"
    THEN [errors |-> <<TRANSLATION_ERROR>>]
    ELSE [final_summary |-> result]

brain_node(st, result) ==
    IF result = "raise"
    THEN [errors |-> <<BRAIN_ERROR>>]
    ELSE IF result # "legal"
         THEN [is_legal |-> "False", errors |-> <<NOT_LEGAL_ERROR>>]
         ELSE [is_legal |-> "True", final_summary |-> "record", errors |-> <<>>]

\* an index stage that reports an empty error list on success
indexer_node_clears_errors(st) == [errors |-> <<>>]

\* an index stage that restates the mode of the run
indexer_node_stamps_mode(st) == [mode |-> "analyze"]

\* an index stage that hands the text back
indexer_node_rewrites_text(st) == [raw_text |-> ""]

\* indexer_node returns {}
indexer_node(st) == <<>>

\* ---------------------------------------------------------------------
\* Retrieval index (rag_pipeline.py LegalRAG)
\* ---------------------------------------------------------------------
\* topics a chunk of text can be about, and a question can ask for
Phrases == {"notice", "salary"}

\* RecursiveCharacterTextSplitter.create_documents: the chunks of a text,
\* each given by the phrases it contains; "long" exceeds one chunk
Chunks(t) ==
    CASE t = "doc" -> << {"notice"} >>
      [] t = "long" -> << {"salary"}, {"notice"} >>
      [] OTHER -> << >>

\* str(uuid.uuid4()): an identifier no indexed entry carries
uuid4(idx) == Len(idx) + 1

\* an index whose content is the chunks of the latest document only
index_document_replacing(idx, text, doc_id, owner) ==
    [i \in 1..Len(Chunks(text)) |->
        [doc_id |-> doc_id, owner |-> owner, text |-> text,
         phrases |-> Chunks(text)[i]]]

\* index_document: Chroma.from_documents adds the chunks, each with the
\* doc_id as metadata, to the collection kept in the persist directory;
\* owner records the session whose stage made the call
index_document(idx, text, doc_id, owner) ==
    idx \o [i \in 1..Len(Chunks(text)) |->
              [doc_id |-> doc_id, owner |-> owner, text |-> text,
               phrases |-> Chunks(text)[i]]]

\* similarity of a chunk to a question, as the embedding ranks it: a
\* chunk about the question's phrase is closer than one that is not
Score(e, q) == IF q \in e.phrases THEN 1 ELSE 0

Min(a, b) == IF a < b THEN a ELSE b

\* a search that returns the first k entries, unranked
similarity_search_first_k(idx, q, k) ==
    {{i \in DOMAIN idx : i <= k}}

\* vector_db.similarity_search(query, k): the possible results, as sets
\* of positions of the index: k entries (all of them when there are
\* fewer), none of which is less similar than an entry left out
similarity_search(idx, q, k) ==
    {D \in SUBSET DOMAIN idx :
        /\ Cardinality(D) = Min(k, Len(idx))
        /\ \A i \in D : \A j \in DOMAIN idx \ D :
              Score(idx[i], q) >= Score(idx[j], q)}

\* no POST /chat was answered yet
NoResponse == [to |-> "t1", code |-> "none"]

NoHits == [asked |-> FALSE, by |-> "t1", q |-> "notice", found |-> FALSE, docs |-> {}]

\* a query_contract that takes an indexed store for a missing one
query_contract_unindexed(idx, s, q) ==
    {[asked |-> TRUE, by |-> s, q |-> q, found |-> FALSE, docs |-> {}]}

\* query_contract: "No document indexed." while nothing was indexed,
\* else the k = TopK most similar chunks of the whole collection; s is
\* the session on whose behalf the question is asked
query_contract(idx, s, q) ==
    IF idx = <<>>
    THEN {[asked |-> TRUE, by |-> s, q |-> q, found |-> FALSE, docs |-> {}]}
    ELSE {[asked |-> TRUE, by |-> s, q |-> q, found |-> TRUE, docs |-> D] :
            D \in similarity_search(idx, q, TopK)}

\* ---------------------------------------------------------------------
\* Chat stage
\* ---------------------------------------------------------------------
RaiseOutcome == [role |-> "raise", markup |-> "none", tool_calls |-> FALSE, fallback |-> FALSE]

\* a retry loop that returns the last leaked response instead of the fallback
RECURSIVE retry_loop_returns_leak(_, _)
retry_loop_returns_leak(resps, i) ==
    IF resps[i] = RaiseOutcome
    THEN [result |-> RaiseOutcome, calls |-> i, leaks |-> i - 1]
    ELSE IF HasLeak(resps[i]) /\ i < MaxTries
         THEN retry_loop_returns_leak(resps, i + 1)
         ELSE [result |-> resps[i], calls |-> i,
               leaks |-> IF HasLeak(resps[i]) THEN i ELSE i - 1]

\* a retry loop that asks the model once more after the ceiling
RECURSIVE retry_loop_one_more(_, _)
retry_loop_one_more(resps, i) ==
    LET r == resps[IF i > MaxTries THEN MaxTries ELSE i]
    IN  IF i > MaxTries + 1
        THEN [result |-> fallback_response, calls |-> MaxTries + 1,
              leaks |-> MaxTries + 1]
        ELSE IF r = RaiseOutcome
             THEN [result |-> RaiseOutcome, calls |-> i, leaks |-> i - 1]
             ELSE IF HasLeak(r)
                  THEN retry_loop_one_more(resps, i + 1)
                  ELSE [result |-> r, calls |-> i, leaks |-> i - 1]

\* a loop that gives up after the first leaked response
RECURSIVE retry_loop_gives_up(_, _)
retry_loop_gives_up(resps, i) ==
    IF resps[i] = RaiseOutcome
    THEN [result |-> RaiseOutcome, calls |-> i, leaks |-> i - 1]
    ELSE IF HasLeak(resps[i])
         THEN [result |-> fallback_response, calls |-> i, leaks |-> i]
         ELSE [result |-> resps[i], calls |-> i, leaks |-> i - 1]

\* unified_engine.chat_agent, the retry loop: resps[i] is what the i-th
\* invocation of the model yields
RECURSIVE retry_loop(_, _)
retry_loop(resps, i) ==
    IF i > MaxTries
    THEN [result |-> fallback_response, calls |-> MaxTries, leaks |-> MaxTries]
    ELSE IF resps[i] = RaiseOutcome
         THEN [result |-> RaiseOutcome, calls |-> i, leaks |-> i - 1]
         ELSE IF HasLeak(resps[i])
              THEN retry_loop(resps, i + 1)
              ELSE [result |-> resps[i], calls |-> i, leaks |-> i - 1]

chat_agent_unified(st, resps) == retry_loop(resps, 1)

\* the stage's local list `messages` when the loop is left: msgs with,
\* for every leaked response, that response and the corrective instruction
RECURSIVE local_messages(_, _, _)
local_messages(msgs, resps, i) ==
    IF i > MaxTries \/ resps[i] = RaiseOutcome \/ ~HasLeak(resps[i])
    THEN msgs
    ELSE local_messages(msgs \o <<resps[i], SystemMessage>>, resps, i + 1)

\* a stage that hands back what its local list gained, then the response
chat_update_with_local(st, resps, r) ==
    [messages |->
        SubSeq(local_messages(<<SystemMessage>> \o st.messages, resps, 1),
               Len(st.messages) + 2,
               Len(local_messages(<<SystemMessage>> \o st.messages, resps, 1)))
        \o <<r.result>>]

\* the update the chat stage returns: {"messages": [response]}
chat_update(st, resps, r) == [messages |-> <<r.result>>]

\* engine.chat_agent: one invocation, the response is returned as it is
chat_agent_multi(st, resps) ==
    [result |-> resps[1], calls |-> 1,
     leaks |-> IF resps[1] # RaiseOutcome /\ HasLeak(resps[1]) THEN 1 ELSE 0]

chat_agent(eng, st, resps) ==
    IF eng = "multi" THEN chat_agent_multi(st, resps) ELSE chat_agent_unified(st, resps)

\* ---------------------------------------------------------------------
\* Inputs of a graph run
\* ---------------------------------------------------------------------
\* main.py / unified_main.py analyze_document: initial_state
AnalyzeInput(eng, t) ==
    IF eng = "multi"
    THEN [raw_text |-> t, messages |-> <<>>, errors |-> <<>>]
    ELSE [messages |-> <<>>, raw_text |-> t, is_legal |-> "True",
          final_summary |-> NoneV, mode |-> "analyze", errors |-> <<>>]

\* main.py / unified_main.py chat_stream: input_data
ChatInput(eng) ==
    IF eng = "multi"
    THEN [messages |-> <<HumanMessage>>]
    ELSE [messages |-> <<HumanMessage>>, mode |-> "chat"]

\* tests/test_logic.py test_graph_stops_on_error: state
TestInput == [raw_text |-> "", errors |-> <<>>]

\* a caller of the engine that names the chat path, as unified_main.py does
DirectChatInput == [messages |-> <<HumanMessage>>, mode |-> "chat"]

\* ---------------------------------------------------------------------
\* Initial state
\* ---------------------------------------------------------------------
InitRun ==
    /\ state = [s \in Sessions |-> EmptyState]
    /\ todo = [s \in Sessions |-> {}]
    /\ pend = [s \in Sessions |-> <<>>]
    /\ nxt = [s \in Sessions |-> {}]
    /\ status = [s \in Sessions |-> "idle"]
    /\ trace = [s \in Sessions |-> <<>>]
    /\ out = [s \in Sessions |-> <<>>]
    /\ doc_store = {}
    /\ index = <<>>
    /\ nreq = 0
    /\ llmCalls = [s \in Sessions |-> 0]
    /\ stageCalls = [s \in Sessions |-> 0]
    /\ stageLeaks = [s \in Sessions |-> 0]
    /\ toolRounds = [s \in Sessions |-> 0]

Init ==
    /\ engine \in Engines
    /\ threads = {"t1"}
    /\ InitRun
    /\ rtState = EmptyState
    /\ rtResult = "unset"
    /\ hits = NoHits
    /\ runs = <<>>
    /\ chatResp = NoResponse

\* ---------------------------------------------------------------------
\* Requests
\* ---------------------------------------------------------------------
\* POST /analyze: a fresh thread id (uuid4, a thread no run has used) is
\* registered and the graph is run
AnalyzeRequest(s, t) ==
    /\ s \notin doc_store
    /\ status[s] = "idle"
    /\ doc_store' = doc_store \cup {s}
    /\ Begin(s, AnalyzeInput(engine, t))
    /\ UNCHANGED <<engine, threads, index, fnVars>>

\* a lookup that finds every thread id
session_found_any(store, s) == TRUE

\* chat_stream: thread_id in doc_store
session_found(store, s) == s \in store

\* POST /chat/{thread_id}: served when the thread id is in doc_store
ChatRequest(s) ==
    /\ session_found(doc_store, s)
    /\ Begin(s, ChatInput(engine))
    /\ chatResp' = [to |-> s, code |-> "200"]
    /\ UNCHANGED <<engine, threads, doc_store, index, rtState, rtResult, hits, runs>>

\* POST /chat/{thread_id} for an unknown thread id: HTTPException 404
\* is raised before the engine is called
ChatNotFound(s) ==
    /\ ~session_found(doc_store, s)
    /\ chatResp' = [to |-> s, code |-> "404"]
    /\ UNCHANGED <<engine, threads, runVars, doc_store, index, nreq, chatVars,
                   rtState, rtResult, hits, runs>>

\* engine.ainvoke(state, config) on a thread of its own, as the test does
EngineInvokeTest(s) ==
    /\ status[s] = "idle"
    /\ Begin(s, TestInput)
    /\ UNCHANGED <<engine, threads, doc_store, index, fnVars>>

\* engine.ainvoke with the chat input, without a front end
EngineInvokeChat(s) ==
    /\ Begin(s, DirectChatInput)
    /\ UNCHANGED <<engine, threads, doc_store, index, fnVars>>

\* ---------------------------------------------------------------------
\* Node executions
\* ---------------------------------------------------------------------
Scheduled(s, n) == n \in todo[s]

\* edges in which translator leads back to discovery
Succ_looping(eng, n, st) ==
    CASE n = "router" -> {route_entry(eng, st)}
      [] n = "validator" ->
            {"indexer"} \cup
            (IF route_after_validation(st) = "discovery" THEN {"discovery"} ELSE {})
      [] n = "discovery" -> {"analyzer"}
      [] n = "analyzer" -> {"translator"}
      [] n = "translator" -> {"discovery"}
      [] n = "brain" -> {"indexer"}
      [] n = "chat_agent" ->
            IF tools_condition(st) = "tools" THEN {"tools"} ELSE {}
      [] n = "tools" -> {"chat_agent"}
      [] OTHER -> {}

\* the nodes the edges leaving n name, given the state n's branch reads
\* (the checkpointed state with n's own patch applied)
Succ(eng, n, st) ==
    CASE n = "router" -> {route_entry(eng, st)}
      [] n = "validator" ->
            {"indexer"} \cup
            (IF route_after_validation(st) = "discovery" THEN {"discovery"} ELSE {})
      [] n = "discovery" -> {"analyzer"}
      [] n = "analyzer" -> {"translator"}
      [] n = "brain" -> {"indexer"}
      [] n = "chat_agent" ->
            IF tools_condition(st) = "tools" THEN {"tools"} ELSE {}
      [] n = "tools" -> {"chat_agent"}
      [] OTHER -> {}

\* unified_main.py analyze_document: the stream of an analysis request
\* (mode "analyze") is read until brain's update says is_legal is False
StopsReading(st, n, patch) ==
    /\ n = "brain"
    /\ st.mode = "analyze"
    /\ "is_legal" \in DOMAIN patch
    /\ patch.is_legal = "False"

Return(s, n, patch) ==
    Finish(s, n, patch, Succ(engine, n, Merge(state[s], patch)))

RouterStep(s) ==
    /\ Scheduled(s, "router")
    /\ Return(s, "router", router_node(state[s]))
    /\ UNCHANGED <<engine, threads, doc_store, index, nreq, chatVars, fnVars>>

ValidatorStep(s) ==
    /\ Scheduled(s, "validator")
    /\ \/ Abort(s, "validator")
       \/ /\ state[s].raw_text # Missing
          /\ \E reply \in ValidatorReplies :
                Return(s, "validator", validator_node(state[s], reply))
    /\ UNCHANGED <<engine, threads, doc_store, index, nreq, chatVars, fnVars>>

IndexerStep(s) ==
    /\ Scheduled(s, "indexer")
    /\ \/ /\ ~Truthy(Get(state[s], "raw_text"))
          /\ index' = index
          /\ Return(s, "indexer", indexer_node(state[s]))
       \/ /\ Truthy(Get(state[s], "raw_text"))
          /\ index' = index_document(index, state[s].raw_text, uuid4(index), s)
          /\ Return(s, "indexer", indexer_node(state[s]))
       \/ /\ Truthy(Get(state[s], "raw_text"))
          /\ index' = index
          /\ Abort(s, "indexer")
    /\ UNCHANGED <<engine, threads, doc_store, nreq, chatVars, fnVars>>

DiscoveryStep(s) ==
    /\ Scheduled(s, "discovery")
    /\ \E backend \in Backends : \E o \in AgentOutcomes(backend) :
          Return(s, "discovery",
                 discovery_node(state[s], extraction_agent(backend, o)))
    /\ UNCHANGED <<engine, threads, doc_store, index, nreq, chatVars, fnVars>>

AnalyzerStep(s) ==
    /\ Scheduled(s, "analyzer")
    /\ \/ /\ state[s].discovery = Missing
          /\ Abort(s, "analyzer")
       \/ /\ state[s].discovery # Missing
          /\ \E backend \in Backends : \E o \in AgentOutcomes(backend) :
                Return(s, "analyzer",
                       analyzer_node(state[s], analyzer_agent(backend, o)))
    /\ UNCHANGED <<engine, threads, doc_store, index, nreq, chatVars, fnVars>>

TranslatorStep(s) ==
    /\ Scheduled(s, "translator")
    /\ \/ /\ state[s].discovery = Missing \/ state[s].analysis = Missing
          /\ Abort(s, "translator")
       \/ /\ state[s].discovery # Missing /\ state[s].analysis # Missing
          /\ \E backend \in Backends : \E o \in AgentOutcomes(backend) :
                Return(s, "translator",
                       translator_node(state[s], translator_agent(backend, o)))
    /\ UNCHANGED <<engine, threads, doc_store, index, nreq, chatVars, fnVars>>

BrainStep(s) ==
    /\ Scheduled(s, "brain")
    /\ \/ /\ state[s].raw_text = Missing
          /\ Abort(s, "brain")
       \/ /\ state[s].raw_text # Missing
          /\ \E backend \in Backends : \E o \in UnifiedOutcomes(backend) :
                LET patch == brain_node(state[s], unified_agent(backend, o))
                IN  IF StopsReading(state[s], "brain", patch)
                    THEN \E committed \in BOOLEAN :
                            Abandon(s, "brain", patch, committed)
                    ELSE Return(s, "brain", patch)
    /\ UNCHANGED <<engine, threads, doc_store, index, nreq, chatVars, fnVars>>

\* what the chat model may yield at this point of the run
ModelOutcomes(s) ==
    {r \in Responses : r.tool_calls => toolRounds[s] < MaxToolRounds}
        \cup {RaiseOutcome}

ChatAgentStep(s) ==
    /\ Scheduled(s, "chat_agent")
    /\ \E resps \in [1..MaxTries -> ModelOutcomes(s)] :
          LET r == chat_agent(engine, state[s], resps)
          IN  /\ llmCalls' = [llmCalls EXCEPT ![s] = @ + r.calls]
              /\ stageCalls' = [stageCalls EXCEPT ![s] = r.calls]
              /\ stageLeaks' = [stageLeaks EXCEPT ![s] = r.leaks]
              /\ IF r.result = RaiseOutcome
                 THEN Abort(s, "chat_agent")
                 ELSE Return(s, "chat_agent", chat_update(state[s], resps, r))
    /\ UNCHANGED <<engine, threads, doc_store, index, nreq, toolRounds, fnVars>>

\* ToolNode(tools=[rag_tool]): the lookup's result is appended as a Tool message
ToolsStep(s) ==
    /\ Scheduled(s, "tools")
    /\ toolRounds' = [toolRounds EXCEPT ![s] = @ + 1]
    /\ Return(s, "tools", [messages |-> <<ToolMessage>>])
    /\ UNCHANGED <<engine, threads, doc_store, index, nreq, llmCalls,
                   stageCalls, stageLeaks, fnVars>>

Next ==
    \/ \E s \in threads, t \in Texts : AnalyzeRequest(s, t)
    \/ \E s \in threads : ChatRequest(s)
    \/ \E s \in threads : ChatNotFound(s)
    \/ \E s \in threads : EngineInvokeTest(s)
    \/ \E s \in threads : EngineInvokeChat(s)
    \/ \E s \in threads : RouterStep(s)
    \/ \E s \in threads : ValidatorStep(s)
    \/ \E s \in threads : IndexerStep(s)
    \/ \E s \in threads : DiscoveryStep(s)
    \/ \E s \in threads : AnalyzerStep(s)
    \/ \E s \in threads : TranslatorStep(s)
    \/ \E s \in threads : BrainStep(s)
    \/ \E s \in threads : ChatAgentStep(s)
    \/ \E s \in threads : ToolsStep(s)

Spec == Init /\ [][Next]_vars

\* ---------------------------------------------------------------------
\* route_entry as a function: it is applied to arbitrary states, and the
\* fields it is said not to read are changed under its result
\* ---------------------------------------------------------------------
ModeValues == {Missing, NoneV, "analyze", "chat", "bogus"}
SummaryValues == {Missing, NoneV, "record", "placeholder"}
ErrorValues == {<<>>, <<VALIDATION_ERROR>>}
OtherFields == {"raw_text", "is_legal", "discovery", "analysis"}
OtherValues == {Missing, "True", "record"}

RouteStates ==
    {[EmptyState EXCEPT !.mode = m, !.final_summary = f, !.errors = e] :
        m \in ModeValues, f \in SummaryValues, e \in ErrorValues}

InitRoute ==
    /\ engine \in Engines
    /\ threads = {}
    /\ InitRun
    /\ rtState \in RouteStates
    /\ rtResult = "unset"
    /\ hits = NoHits
    /\ runs = <<>>
    /\ chatResp = NoResponse

RouteApply ==
    /\ rtResult' = route_entry(engine, rtState)
    /\ rtState' = rtState
    /\ UNCHANGED <<engine, threads, runVars, doc_store, index, nreq, chatVars, hits, runs, chatResp>>

RoutePerturb ==
    /\ \/ \E f \in OtherFields, v \in OtherValues :
             rtState' = [rtState EXCEPT ![f] = v]
       \/ \E ms \in {<<>>, <<HumanMessage>>} :
             rtState' = [rtState EXCEPT !.messages = ms]
    /\ rtResult' = rtResult
    /\ UNCHANGED <<engine, threads, runVars, doc_store, index, nreq, chatVars, hits, runs, chatResp>>

NextRoute == RouteApply \/ RoutePerturb

SpecRoute == InitRoute /\ [][NextRoute]_vars

\* ---------------------------------------------------------------------
\* Properties
\* ---------------------------------------------------------------------
AnalysisEntry(eng) == IF eng = "multi" THEN "validator" ELSE "brain"

Last(q) == q[Len(q)]

IsPrefix(a, b) == Len(a) <= Len(b) /\ SubSeq(b, 1, Len(a)) = a

Ran(s, n) == \E i \in DOMAIN trace[s] : trace[s][i] = n

\* a node of thread s executes in this step
NodeStep(s) == Len(trace'[s]) = Len(trace[s]) + 1

Executes(s, n) == NodeStep(s) /\ Last(trace'[s]) = n

FieldSet(v) == v \notin {Missing, NoneV}

AnalysisStages == {"discovery", "analyzer", "translator"}

StageErrors ==
    {VALIDATION_ERROR, NOT_LEGAL_ERROR, DISCOVERY_ERROR, ANALYSIS_ERROR,
     TRANSLATION_ERROR, BRAIN_ERROR}

SummarySet(st) == st.final_summary \notin {Missing, NoneV}

\* C2: route_entry returns the chat stage exactly when mode is "chat",
\* final_summary is set and errors is empty, and the analysis entry stage
\* in every other case (a missing or unknown mode included); its result
\* stays the right one when any other field of the state changes, and
\* applying it leaves the state as it was.
C2_RouteEntry ==
    rtResult # "unset" =>
        rtResult =
            IF rtState.mode = "chat" /\ SummarySet(rtState) /\ rtState.errors = <<>>
            THEN "chat_agent"
            ELSE AnalysisEntry(engine)

C2_Witness ==
    /\ rtResult = "chat_agent"
    /\ rtState.raw_text = "record"

\* C1: once errors is non-empty after a stage of a run has completed, no
\* further analysis stage (discover, analyze, translate) executes in that
\* run: whenever one of them executes, the state it reads has empty errors.
C1_NoStageAfterError ==
    [][\A s \in Sessions :
          (\E n \in AnalysisStages : Executes(s, n)) => state[s].errors = <<>>]_vars

\* C3: after a run whose validation yielded is_legal = false, errors is
\* non-empty and neither analysis nor final_summary is set, whatever runs
\* the session saw before.
C3_ValidationFailure ==
    \A s \in Sessions :
        (/\ status[s] = "done"
         /\ Ran(s, AnalysisEntry(engine))
         /\ state[s].is_legal = "False")
        => (/\ state[s].errors # <<>>
            /\ ~FieldSet(state[s].analysis)
            /\ ~FieldSet(state[s].final_summary))

\* C4: when every response of the model carries leaked tool-call markup,
\* the unified chat stage stops after MaxTries invocations, what it
\* appends is the fallback message, and the chat turn ends there.
C4_FallbackAfterCeiling ==
    \A s \in Sessions :
        (/\ engine = "unified"
         /\ trace[s] # <<>>
         /\ Last(trace[s]) = "chat_agent"
         /\ status[s] # "aborted"
         /\ stageCalls[s] > 0
         /\ stageLeaks[s] = stageCalls[s])
        => (/\ stageCalls[s] = MaxTries
            /\ Last(state[s].messages) = fallback_response
            /\ status[s] = "done"
            /\ todo[s] = {})

C4_Witness ==
    \E s \in Sessions :
        /\ engine = "unified"
        /\ trace[s] # <<>>
        /\ Last(trace[s]) = "chat_agent"
        /\ stageLeaks[s] = MaxTries
        /\ status[s] = "done"
        /\ Last(state[s].messages) = fallback_response

\* C5: no assistant message in a session's messages carries leaked
\* tool-call markup.
C5_NoLeakedMessage ==
    \A s \in Sessions :
        \A i \in DOMAIN state[s].messages :
            state[s].messages[i].role = "ai" => ~HasLeak(state[s].messages[i])

\* C6 as stated: the model is invoked at most MaxTries times for one
\* user message, tool rounds included.
C6_Original == \A s \in Sessions : llmCalls[s] <= MaxTries

\* C6 amended: the retry ceiling bounds each execution of the chat stage,
\* not the user message: the model is invoked at most MaxTries times per
\* execution of the stage, so at most MaxTries * (1 + tool executions)
\* times for one user message.
C6_CeilingPerStage ==
    \A s \in Sessions : llmCalls[s] <= MaxTries * (toolRounds[s] + 1)

C6_Witness ==
    \E s \in Sessions :
        /\ llmCalls[s] > MaxTries
        /\ toolRounds[s] >= 1
        /\ status[s] = "done"

\* C7: messages is append-only: in every step, each session's previous
\* messages sequence is a prefix of its new one.
C7_MessagesAppendOnly ==
    [][\A s \in Sessions :
          IsPrefix(state[s].messages, state'[s].messages)]_vars

C7_Witness ==
    \E s \in Sessions :
        /\ Len(state[s].messages) >= 3
        /\ state[s].messages[1].role = "human"
        /\ status[s] = "done"

\* C8 as stated: errors is append-only: when a stage's patch is merged,
\* the previous errors is a prefix of the new one.
C8_Original ==
    [][\A s \in Sessions :
          NodeStep(s) => IsPrefix(state[s].errors, state'[s].errors)]_vars

\* C8 amended: errors keeps the last value written: a stage's patch that
\* names errors replaces the whole sequence, by the empty sequence or by
\* the single entry of the stage that failed, and a patch that does not
\* name it leaves it as it was.
C8_ErrorsLastWrite ==
    [][\A s \in Sessions :
          NodeStep(s) =>
              \/ state'[s].errors = state[s].errors
              \/ state'[s].errors = <<>>
              \/ \E e \in StageErrors : state'[s].errors = <<e>>]_vars

C8_Witness ==
    \E s \in Sessions :
        /\ engine = "unified"
        /\ state[s].mode = "chat"
        /\ state[s].raw_text # Missing
        /\ Ran(s, "brain")
        /\ state[s].final_summary = "record"
        /\ state[s].errors = <<>>

\* C9: after the discover stage has put the placeholder record of a parse
\* failure (non-JSON text from the generation collaborator) into
\* discovery, errors holds an entry for that failure.
C9_ParseFailureRecorded ==
    \A s \in Sessions :
        (/\ Ran(s, "discovery")
         /\ ~Ran(s, "analyzer")
         /\ state[s].discovery = "placeholder")
        => state[s].errors # <<>>

\* C10: when the collaborator call of a discover, analyze, translate or
\* unified-analysis stage fails, the stage's output field holds a
\* (degraded default) record next to the error entry.
C10_DegradedDefault ==
    \A s \in Sessions :
        /\ state[s].errors = <<DISCOVERY_ERROR>> => FieldSet(state[s].discovery)
        /\ state[s].errors = <<ANALYSIS_ERROR>> => FieldSet(state[s].analysis)
        /\ state[s].errors = <<TRANSLATION_ERROR>> => FieldSet(state[s].final_summary)
        /\ state[s].errors = <<BRAIN_ERROR>> => FieldSet(state[s].final_summary)

\* the keys a node reads with state[...]: a key no stage has written yet
\* makes the node raise KeyError before it reaches its collaborator
RequiredKeys(n) ==
    CASE n = "validator" -> {"raw_text"}
      [] n = "discovery" -> {"raw_text"}
      [] n = "analyzer" -> {"discovery"}
      [] n = "translator" -> {"discovery", "analysis"}
      [] n = "brain" -> {"raw_text"}
      [] OTHER -> {}

ReadsMissing(n, st) == \E k \in RequiredKeys(n) : st[k] = Missing

\* C11: a failure of a stage's collaborator call never aborts the run: a
\* run that ended with an uncaught fault ended in a stage that read a
\* state key nobody had written, not in a stage whose collaborator failed.
C11_FailuresCaught ==
    \A s \in Sessions :
        status[s] = "aborted" => ReadsMissing(Last(trace[s]), state[s])

\* C12: an analysis run on raw_text = "" ends with errors equal to the
\* single entry "No text provided...", with analysis unset, and without
\* the discover or analyze stage having executed.
C12_EmptyInput ==
    \A s \in Sessions :
        (/\ status[s] = "done"
         /\ state[s].raw_text = ""
         /\ Ran(s, AnalysisEntry(engine)))
        => (/\ state[s].errors = <<"No text provided...">>
            /\ ~FieldSet(state[s].analysis)
            /\ ~Ran(s, "discovery")
            /\ ~Ran(s, "analyzer"))

\* a chat invocation: the run's input carried the user's message
IsChatInvocation(st) ==
    st.messages # <<>> /\ Last(st.messages).role = "human"

\* C13: a chat invocation on a session without final_summary is routed by
\* the entry router to the analysis entry stage, and the chat stage does
\* not execute in that invocation: the chat stage only ever executes in a
\* run that did not enter the analysis path, on a state that has a
\* final_summary.
C13_ChatBeforeAnalysis ==
    [][\A s \in Sessions :
          /\ (/\ Executes(s, "router")
              /\ IsChatInvocation(state[s])
              /\ ~FieldSet(state[s].final_summary))
             => todo'[s] = {AnalysisEntry(engine)}
          /\ Executes(s, "chat_agent")
             => (/\ ~Ran(s, AnalysisEntry(engine))
                 /\ FieldSet(state[s].final_summary))]_vars

C13_Witness ==
    \E s \in Sessions :
        /\ engine = "unified"
        /\ state[s].mode = "chat"
        /\ IsChatInvocation(state[s])
        /\ ~FieldSet(state[s].final_summary)
        /\ trace[s] = <<"router">>
        /\ todo[s] = {"brain"}

Ended(s) == status[s] \in {"done", "aborted", "abandoned"}

\* C14: when an analysis run has ended, the session state contains
\* final_summary or non-empty errors.
C14_SummaryOrErrors ==
    \A s \in Sessions :
        (/\ Ended(s)
         /\ Ran(s, AnalysisEntry(engine))
         /\ ~IsChatInvocation(state[s]))
        => (FieldSet(state[s].final_summary) \/ state[s].errors # <<>>)

\* C15: in every analysis run in which the validation stage (validator,
\* or brain in the unified engine) has run and returned, the index stage
\* executes before the run is over, whatever the verdict on the document
\* and whatever happens to the later stages.
C15_IndexAlwaysRuns ==
    \A s \in Sessions :
        (/\ Ended(s)
         /\ Ran(s, AnalysisEntry(engine))
         /\ ~(status[s] = "aborted" /\ Last(trace[s]) = AnalysisEntry(engine)))
        => Ran(s, "indexer")

\* C16: a failure of the index stage does not affect the analysis branch:
\* a run whose last executed stage is the index stage has completed, it
\* was not cut short there with the discover, analyze and translate
\* stages still to come.
C16_IndexFailureIsolated ==
    \A s \in Sessions :
        (Ended(s) /\ trace[s] # <<>> /\ Last(trace[s]) = "indexer")
        => status[s] = "done"

\* C17: the index stage returns no state fields: its update is empty, and
\* the session state after it is the state before it (with the patches of
\* the other stages of its superstep merged, when it is the last of them
\* to return); its effect is on the retrieval index only.
C17_IndexerFrame ==
    [][\A s \in Sessions :
          Executes(s, "indexer")
          => (/\ DOMAIN out'[s] = {}
              /\ \/ state'[s] = state[s]
                 \/ state'[s] = ApplyAll(state[s], pend[s]))]_vars

C17_Witness ==
    \E s \in Sessions :
        /\ status[s] = "done"
        /\ Last(trace[s]) = "indexer"
        /\ index # <<>>
        /\ state[s].errors # <<>>
        /\ state[s].is_legal = "False"

\* C18: merging a stage's patch leaves every field the patch does not
\* name unchanged: a field that changes in a step of a run is named by
\* the update of the stage that returned or by a pending patch of its
\* superstep.
C18_PatchFrame ==
    [][\A s \in Sessions :
          NodeStep(s) =>
              \A f \in Fields :
                  state'[s][f] # state[s][f]
                  => \/ f \in DOMAIN out'[s]
                     \/ \E i \in DOMAIN pend[s] : f \in DOMAIN pend[s][i]]_vars

C18_Witness ==
    \E s \in Sessions :
        /\ status[s] = "done"
        /\ Last(trace[s]) = "translator"
        /\ state[s].raw_text = "doc"
        /\ state[s].is_legal = "True"
        /\ FieldSet(state[s].discovery)
        /\ FieldSet(state[s].analysis)
        /\ FieldSet(state[s].final_summary)

\* the entry each engine's validation reports for a rejected document
RejectionMessage(eng) ==
    IF eng = "multi" THEN VALIDATION_ERROR ELSE NOT_LEGAL_ERROR

\* the validation stage has just returned a rejection
Rejects(s) ==
    /\ Executes(s, AnalysisEntry(engine))
    /\ "is_legal" \in DOMAIN out'[s]
    /\ out'[s].is_legal = "False"

\* C19: a validation failure is terminal for the analysis path and is
\* the sole error: when the validation stage rejects the document, the
\* errors it reports is exactly the validation message, no analysis stage
\* is scheduled, and the state that records the rejection has that
\* message as its only errors entry, whatever errors held before.
C19_ValidationSoleError ==
    [][\A s \in Sessions :
          Rejects(s)
          => (/\ out'[s].errors = <<RejectionMessage(engine)>>
              /\ todo'[s] \cap AnalysisStages = {}
              /\ state'[s].is_legal = "False"
                 => state'[s].errors = <<RejectionMessage(engine)>>)]_vars

C19_Witness ==
    \E s \in Sessions :
        /\ engine = "multi"
        /\ IsChatInvocation(state[s])
        /\ trace[s] = <<"router", "validator">>
        /\ out[s] = validator_node(state[s], "NO")
        /\ state[s].errors = <<VALIDATION_ERROR>>
        /\ todo[s] = {"indexer"}

\* C20 as stated: a chat request is accepted for a session only if an
\* analysis run of the session has completed successfully before.
C20_Original ==
    [][\A s \in Sessions :
          ChatRequest(s)
          => (/\ status[s] = "done"
              /\ FieldSet(state[s].final_summary)
              /\ state[s].errors = <<>>)]_vars

\* C20 amended: a chat request is accepted for any session id an analysis
\* request has registered, whatever became of that analysis; the chat
\* stage itself executes only on a session state with final_summary set
\* and errors empty.
C20_ChatStageGuard ==
    [][\A s \in Sessions :
          /\ ChatRequest(s) => s \in doc_store
          /\ Executes(s, "chat_agent")
             => (/\ FieldSet(state[s].final_summary)
                 /\ state[s].errors = <<>>)]_vars

C20_Witness ==
    \E s \in Sessions :
        /\ s \in doc_store
        /\ state[s].mode = "chat"
        /\ trace[s] = <<"router", "chat_agent">>
        /\ status[s] = "done"
        /\ Last(state[s].messages).role = "ai"

\* ---------------------------------------------------------------------
\* Two sessions on the unified engine (unified_main.py): every request
\* carries its own thread id, the runs of the two threads interleave
\* node by node
\* ---------------------------------------------------------------------
InitTwo ==
    /\ engine = "unified"
    /\ threads = Sessions
    /\ InitRun
    /\ rtState = EmptyState
    /\ rtResult = "unset"
    /\ hits = NoHits
    /\ runs = <<>>
    /\ chatResp = NoResponse

NextTwo ==
    \/ \E s \in threads, t \in Texts : AnalyzeRequest(s, t)
    \/ \E s \in threads : ChatRequest(s)
    \/ \E s \in threads : EngineInvokeTest(s)
    \/ \E s \in threads : EngineInvokeChat(s)
    \/ \E s \in threads : RouterStep(s)
    \/ \E s \in threads : IndexerStep(s)
    \/ \E s \in threads : BrainStep(s)
    \/ \E s \in threads : ChatAgentStep(s)
    \/ \E s \in threads : ToolsStep(s)

SpecTwo == InitTwo /\ [][NextTwo]_vars

\* the step is an operation (request or node execution) of session s
StepOf(s) ==
    \/ trace'[s] # trace[s]
    \/ status'[s] # status[s]
    \/ todo'[s] # todo[s]

\* C21: sessions share no mutable state but the retrieval index: a step
\* of an analysis run or chat turn of one session leaves the checkpointed
\* state of every other session unchanged, however the operations of the
\* sessions interleave.
C21_SessionIsolation ==
    [][\A a \in Sessions : \A b \in Sessions \ {a} :
          StepOf(a) => (/\ state'[b] = state[b]
                        /\ pend'[b] = pend[b]
                        /\ todo'[b] = todo[b])]_vars

C21_Witness ==
    \E a \in Sessions : \E b \in Sessions \ {a} :
        /\ status[a] = "running"
        /\ status[b] = "running"
        /\ trace[a] # <<>>
        /\ trace[b] # <<>>
        /\ Last(trace[a]) = "brain"
        /\ state[a].final_summary = "record"
        /\ state[a].errors = <<>>
        /\ Last(trace[b]) = "brain"
        /\ ~FieldSet(state[b].final_summary)
        /\ state[b].errors # <<>>

\* ---------------------------------------------------------------------
\* The retrieval index as an object: documents are indexed on behalf of
\* sessions (indexer_node) and questions are asked on behalf of sessions
\* (the chat stage's lookup tool)
\* ---------------------------------------------------------------------
RagTexts == {"doc", "long"}

InitRag ==
    /\ engine \in Engines
    /\ threads = Sessions
    /\ InitRun
    /\ rtState = EmptyState
    /\ rtResult = "unset"
    /\ hits = NoHits
    /\ runs = <<>>
    /\ chatResp = NoResponse

RagIndex(s, t) ==
    /\ Len(index) + Len(Chunks(t)) <= MaxChunks
    /\ index' = index_document(index, t, uuid4(index), s)
    /\ UNCHANGED <<engine, threads, runVars, doc_store, nreq, chatVars, fnVars>>

RagQuery(s, q) ==
    /\ hits' \in query_contract(index, s, q)
    /\ UNCHANGED <<engine, threads, runVars, doc_store, index, nreq, chatVars,
                   rtState, rtResult, runs, chatResp>>

NextRag ==
    \/ \E s \in Sessions, t \in RagTexts : RagIndex(s, t)
    \/ \E s \in Sessions, q \in Phrases : RagQuery(s, q)

SpecRag == InitRag /\ [][NextRag]_vars

\* query_contract has just returned
Queried == hits' # hits

\* C22: a query returns at most k = 3 chunks, chosen by similarity over
\* the entire index whatever session asks: no chunk of the index that
\* was left out is more similar to the question than a returned one, and
\* fewer than k chunks come back only when the index holds fewer.  The
\* witness is a query by one session that returns a chunk of a document
\* indexed by the other.
C22_QueryUnscoped ==
    [][(Queried /\ hits'.found) =>
          /\ hits'.docs \subseteq DOMAIN index
          /\ Cardinality(hits'.docs) <= TopK
          /\ Cardinality(hits'.docs) = Min(TopK, Len(index))
          /\ \A i \in hits'.docs : \A j \in DOMAIN index \ hits'.docs :
                Score(index[i], hits'.q) >= Score(index[j], hits'.q)]_vars

C22_Witness ==
    /\ hits.asked /\ hits.found
    /\ Len(index) > TopK
    /\ \E i \in DOMAIN index : index[i].owner = hits.by
    /\ \E i \in hits.docs : index[i].owner # hits.by

\* C23: indexing is additive and not idempotent: a call of
\* index_document leaves every entry that was indexed before in place and
\* appends the chunks of the text under a document id no earlier entry
\* carries, also when the same text was indexed before.
C23_IndexAdditive ==
    [][index' # index =>
          /\ IsPrefix(index, index')
          /\ Len(index') > Len(index)
          /\ \A j \in (DOMAIN index') \ (DOMAIN index) :
                /\ \A i \in DOMAIN index : index[i].doc_id # index'[j].doc_id
                /\ Len(index') = Len(index) + Len(Chunks(index'[j].text))]_vars

C23_Witness ==
    \E i, j \in DOMAIN index :
        /\ i < j
        /\ index[i].text = "long" /\ index[j].text = "long"
        /\ index[i].phrases = index[j].phrases
        /\ index[i].doc_id # index[j].doc_id
        /\ Len(index) = 2 * Len(Chunks("long"))

ValidatorStates ==
    {[EmptyState EXCEPT !.raw_text = t, !.errors = e, !.is_legal = l] :
        t \in Texts,
        e \in {<<>>, <<VALIDATION_ERROR>>, <<DISCOVERY_ERROR>>},
        l \in {Missing, "True", "False"}}

InitValidate ==
    /\ engine = "multi"
    /\ threads = {}
    /\ InitRun
    /\ rtState \in ValidatorStates
    /\ rtResult = "unset"
    /\ hits = NoHits
    /\ runs = <<>>
    /\ chatResp = NoResponse

\* one execution of validator_node: the collaborator answers reply to
\* the prompt built from raw_text, and the patch is merged
ValidateApply(reply) ==
    /\ Len(runs) < MaxRuns
    /\ LET patch == validator_node(rtState, reply)
       IN  /\ runs' = Append(runs, [text |-> rtState.raw_text, reply |-> reply,
                                    seen |-> rtState.errors, patch |-> patch])
           /\ rtState' = Merge(rtState, patch)
    /\ UNCHANGED <<engine, threads, runVars, doc_store, index, nreq, chatVars,
                   rtResult, hits, chatResp>>

\* what later stages and requests change between two executions
ValidatePerturb ==
    /\ \E e \in {<<>>, <<DISCOVERY_ERROR>>}, d \in {Missing, "record"} :
          rtState' = [rtState EXCEPT !.errors = e, !.discovery = d]
    /\ UNCHANGED <<engine, threads, runVars, doc_store, index, nreq, chatVars,
                   rtResult, hits, runs, chatResp>>

NextValidate ==
    \/ \E reply \in ValidatorReplies : ValidateApply(reply)
    \/ ValidatePerturb

SpecValidate == InitValidate /\ [][NextValidate]_vars

\* C25: two executions of Validate on the same input to which the
\* collaborator gives the same answer yield the same is_legal and the same
\* errors, whatever the state held when each of them ran.
C25_ValidateDeterministic ==
    \A i, j \in DOMAIN runs :
        (runs[i].text = runs[j].text /\ runs[i].reply = runs[j].reply) =>
            /\ runs[i].patch.is_legal = runs[j].patch.is_legal
            /\ runs[i].patch.errors = runs[j].patch.errors

C25_Witness ==
    /\ Len(runs) = 2
    /\ runs[1].text = runs[2].text /\ runs[1].reply = runs[2].reply
    /\ runs[1].seen # runs[2].seen
    /\ runs[2].patch.is_legal = "True" /\ runs[2].seen # <<>>

\* C26: the analysis path does not wait for the index stage: once the
\* discover stage of a run has completed, the analyze stage can begin,
\* whether or not the index stage started alongside discover has finished.
C26_AnalyzeNotAwaitingIndex ==
    \A s \in Sessions :
        (/\ status[s] = "running"
         /\ Ran(s, "discovery")
         /\ ~Ran(s, "analyzer"))
        => Scheduled(s, "analyzer")

\* the patches returned so far in the step of session s that is under
\* way, the one returned in this transition included
StepPatches(s) == Append(pend[s], out'[s])

\* C27: no two stages of a step write the session state: among the
\* patches of the stages that run in one step (index alongside discover)
\* at most one is non-empty, so no field is written twice in a step.
C27_SingleWriterPerStep ==
    [][\A s \in Sessions :
          NodeStep(s) =>
            /\ Cardinality({i \in DOMAIN StepPatches(s) :
                               DOMAIN StepPatches(s)[i] # {}}) <= 1
            /\ \A i, j \in DOMAIN StepPatches(s) :
                  i # j => DOMAIN StepPatches(s)[i] \cap DOMAIN StepPatches(s)[j] = {}]_vars

C27_Witness ==
    \E s \in Sessions :
        /\ status[s] = "running"
        /\ trace[s] # <<>>
        /\ Last(trace[s]) = "discovery"
        /\ Ran(s, "indexer")
        /\ FieldSet(state[s].discovery)
        /\ todo[s] = {"analyzer"}

\* a run of session s starts on an input that carries a user message
ChatTurnBegins(s) ==
    /\ nreq' = nreq + 1
    /\ status'[s] = "running" /\ trace'[s] = <<>> /\ todo'[s] = {"router"}
    /\ Len(state'[s].messages) = Len(state[s].messages) + 1

\* C28: raw_text is never written after the input of the analysis set
\* it: no execution of a stage changes the raw_text of its session, and
\* the start of a chat turn leaves it as it was.
C28_RawTextImmutable ==
    [][\A s \in Sessions :
          (NodeStep(s) \/ ChatTurnBegins(s))
          => state'[s].raw_text = state[s].raw_text]_vars

C28_Witness ==
    \E s \in Sessions :
        /\ state[s].raw_text = "doc"
        /\ status[s] = "done"
        /\ Ran(s, "chat_agent")
        /\ state[s].messages # <<>> /\ state[s].messages[1].role = "human"
        /\ index # <<>>

\* the stages of the multi-stage analysis path, in the order of its edges
PathStages == <<"validator", "discovery", "analyzer", "translator">>

IsPathStage(n) == \E i \in DOMAIN PathStages : PathStages[i] = n

\* C29: in a run of the multi-stage engine the stages validate, discover,
\* analyze and translate execute in that order, each at most once, and
\* none is entered again: the path stages executed so far, in the order
\* of their execution, are an initial part of that sequence.
C29_StageOrder ==
    \A s \in Sessions :
        IsPrefix(SelectSeq(trace[s], IsPathStage), PathStages)

C29_Witness ==
    \E s \in Sessions :
        /\ status[s] = "done"
        /\ SelectSeq(trace[s], IsPathStage) = PathStages
        /\ Ran(s, "indexer")

\* the chat stage of session s returns a response in this step
Responds(s) == Executes(s, "chat_agent") /\ status'[s] # "aborted"

\* C30: in the chat path a response of the chat stage that requests the
\* tool is followed by the tool execution and by nothing else; the tool
\* execution appends one Tool-role message and is followed by the next
\* invocation of the model, which never runs on a request still to be
\* served; a response without a tool request ends the turn and is the
\* last message of the session.
C30_ToolLoop ==
    [][\A s \in Sessions :
          /\ Responds(s) =>
                LET m == out'[s].messages[1]
                IN  /\ state'[s].messages = Append(state[s].messages, m)
                    /\ m.tool_calls =>
                          (status'[s] = "running" /\ todo'[s] = {"tools"})
                    /\ ~m.tool_calls =>
                          (status'[s] = "done" /\ todo'[s] = {})
          /\ Executes(s, "chat_agent") =>
                (state[s].messages # <<>> /\ ~Last(state[s].messages).tool_calls)
          /\ Executes(s, "tools") =>
                /\ Last(trace[s]) = "chat_agent"
                /\ Last(state[s].messages).tool_calls
                /\ state'[s].messages = Append(state[s].messages, ToolMessage)
                /\ status'[s] = "running" /\ todo'[s] = {"chat_agent"}]_vars

C30_Witness ==
    \E s \in Sessions :
        /\ status[s] = "done"
        /\ trace[s] = <<"router", "chat_agent", "tools", "chat_agent">>
        /\ Len(state[s].messages) >= 4
        /\ LET n == Len(state[s].messages)
           IN  /\ state[s].messages[n - 3].role = "human"
               /\ state[s].messages[n - 2].tool_calls
               /\ state[s].messages[n - 1].role = "tool"
               /\ state[s].messages[n].role = "ai"
               /\ ~state[s].messages[n].tool_calls

\* C31: after an analysis run of a session has completed successfully
\* (final_summary set, errors empty), a chat request for that session is
\* routed by the entry router to the chat stage, not to the analysis
\* entry stage, with either front end.
C31_ChatAfterAnalysis ==
    [][\A s \in Sessions :
          (/\ Executes(s, "router")
           /\ s \in doc_store
           /\ IsChatInvocation(state[s])
           /\ FieldSet(state[s].final_summary)
           /\ state[s].errors = <<>>)
          => todo'[s] = {"chat_agent"}]_vars

\* C32: a chat invocation of the unified engine (its input names the
\* mode "chat" and carries the user's message) that has run to completion
\* leaves an assistant message without a pending tool request as the last
\* element of messages.
C32_ChatEndsWithReply ==
    \A s \in Sessions :
        (/\ engine = "unified"
         /\ status[s] = "done"
         /\ state[s].mode = "chat"
         /\ state[s].messages # <<>>)
        => (/\ Last(state[s].messages).role = "ai"
            /\ ~Last(state[s].messages).tool_calls)

\* ---------------------------------------------------------------------
\* The unified chat stage as a function: it is executed on a session
\* state, the model yielding resps, and its update is merged
\* ---------------------------------------------------------------------
ChatStates ==
    {[EmptyState EXCEPT !.messages = ms, !.final_summary = "record",
                        !.mode = "chat"] :
        ms \in {<<HumanMessage>>,
                <<HumanMessage, AIMessage("none", TRUE), ToolMessage>>}}

InitChat ==
    /\ engine = "unified"
    /\ threads = {}
    /\ InitRun
    /\ rtState \in ChatStates
    /\ rtResult = "unset"
    /\ hits = NoHits
    /\ runs = <<>>
    /\ chatResp = NoResponse

\* one execution of chat_agent that returns a response
ChatApply(resps) ==
    /\ Len(runs) < MaxRuns
    /\ LET r == chat_agent_unified(rtState, resps)
           patch == chat_update(rtState, resps, r)
       IN  /\ r.result # RaiseOutcome
           /\ runs' = Append(runs,
                  [resps |-> resps, r |-> r, patch |-> patch,
                   before |-> rtState.messages,
                   local |-> local_messages(<<SystemMessage>> \o rtState.messages,
                                            resps, 1)])
           /\ rtState' = Merge(rtState, patch)
    /\ UNCHANGED <<engine, threads, runVars, doc_store, index, nreq, chatVars,
                   rtResult, hits, chatResp>>

\* one execution of chat_agent in which an invocation of the model raises
ChatRaise(resps) ==
    /\ Len(runs) < MaxRuns
    /\ LET r == chat_agent_unified(rtState, resps)
       IN  /\ r.result = RaiseOutcome
           /\ runs' = Append(runs,
                  [resps |-> resps, r |-> r, patch |-> <<>>,
                   before |-> rtState.messages,
                   local |-> local_messages(<<SystemMessage>> \o rtState.messages,
                                            resps, 1)])
           /\ rtState' = rtState
    /\ UNCHANGED <<engine, threads, runVars, doc_store, index, nreq, chatVars,
                   rtResult, hits, chatResp>>

NextChat ==
    \/ \E resps \in [1..MaxTries -> Responses \cup {RaiseOutcome}] : ChatApply(resps)
    \/ \E resps \in [1..MaxTries -> Responses \cup {RaiseOutcome}] : ChatRaise(resps)

SpecChat == InitChat /\ [][NextChat]_vars

\* a response the chat stage accepts
Clean(m) == m # RaiseOutcome /\ ~HasLeak(m)

\* C33: one execution of the unified chat stage invokes the model at most
\* twice and returns exactly one message: the first response of the
\* model without leaked markup, or the fallback message when both
\* responses carried leaked markup.
C33_ChatStageResult ==
    \A n \in DOMAIN runs :
        LET resps == runs[n].resps
            r == runs[n].r
        IN  /\ r.calls <= 2
            /\ r.result # RaiseOutcome =>
                  (Len(runs[n].patch.messages) = 1 /\ runs[n].patch.messages[1] = r.result)
            /\ (\A i \in 1..2 : HasLeak(resps[i])) =>
                  (r.result = fallback_response /\ r.calls = 2)
            /\ \A k \in 1..2 :
                  (Clean(resps[k]) /\ \A i \in 1..(k - 1) : HasLeak(resps[i])) =>
                     (r.result = resps[k] /\ r.calls = k)
            /\ r.result \notin {fallback_response, RaiseOutcome} =>
                  Clean(r.result)

C33_Witness ==
    \E m, n \in DOMAIN runs :
        /\ HasLeak(runs[m].resps[1]) /\ Clean(runs[m].resps[2])
        /\ runs[m].r.result = runs[m].resps[2]
        /\ HasLeak(runs[n].resps[1]) /\ HasLeak(runs[n].resps[2])
        /\ runs[n].r.result = fallback_response

\* the session's messages once the update of execution n is merged
After(n) == IF n = Len(runs) THEN rtState.messages ELSE runs[n + 1].before

\* C34: the leaked responses and the corrective instructions of a retry
\* live in the stage's local list only: the local list gains two messages
\* per leaked response, and the session's messages gains exactly the one
\* message the stage returns, which is neither of them.
C34_RetryLocalOnly ==
    /\ \A n \in DOMAIN runs :
          LET r == runs[n].r
          IN  /\ Len(runs[n].local) = Len(runs[n].before) + 1 + 2 * r.leaks
              /\ r.result # RaiseOutcome =>
                    /\ After(n) = Append(runs[n].before, r.result)
                    /\ r.result.role = "ai" /\ ~HasLeak(r.result)
              /\ r.result = RaiseOutcome => After(n) = runs[n].before
    /\ \A i \in DOMAIN rtState.messages :
          /\ rtState.messages[i].role # "system"
          /\ ~HasLeak(rtState.messages[i])

C34_Witness ==
    \E n \in DOMAIN runs :
        /\ runs[n].r.leaks = 1
        /\ runs[n].r.result # RaiseOutcome
        /\ HasLeak(runs[n].local[Len(runs[n].before) + 2])
        /\ runs[n].local[Len(runs[n].before) + 3] = SystemMessage
        /\ Len(After(n)) = Len(runs[n].before) + 1
        /\ Last(After(n)) = runs[n].resps[2]

\* the analysis of session s completes successfully in this step: the
\* last analysis stage returns a summary and no stage of the run has
\* reported an error
AnalysisSucceeds(s) ==
    /\ Executes(s, IF engine = "multi" THEN "translator" ELSE "brain")
    /\ "final_summary" \in DOMAIN out'[s]
    /\ FieldSet(out'[s].final_summary)
    /\ engine = "multi" => state[s].errors = <<>>

\* C35: when a chat request on a session falls back to the analysis entry
\* and that analysis succeeds, the session state has errors empty and
\* final_summary set afterwards, and the entry router sends the session's
\* next chat request to the chat stage.
C35_ChatRecovers ==
    [][\A s \in Sessions :
          (/\ s \in doc_store
           /\ IsChatInvocation(state[s])
           /\ AnalysisSucceeds(s))
          => (/\ state'[s].errors = <<>>
              /\ FieldSet(state'[s].final_summary)
              /\ route_entry(engine, Merge(state'[s], ChatInput(engine)))
                    = "chat_agent")]_vars

\* C36: in every reachable session state of either engine, is_legal
\* false implies that errors is not empty.
C36_RejectedHasError ==
    \A s \in Sessions :
        state[s].is_legal = "False" => state[s].errors # <<>>

C36_Witness ==
    \E s \in Sessions :
        /\ state[s].is_legal = "False"
        /\ state[s].errors = <<RejectionMessage(engine)>>
        /\ Ended(s)

\* unified_main.py analyze_document, the last event of the stream of an
\* analysis request whose run has ended: the error event when brain's
\* update had is_legal False (the stream is left there) or when the run
\* raised, the event with status "done" when the stream was read to its
\* end and an update of brain was seen (analysis_complete), the
\* "incomplete" error event otherwise
terminal_event(s) ==
    IF status[s] = "abandoned" THEN "error: not a legal document"
    ELSE IF status[s] = "aborted" THEN "error: analysis failed"
    ELSE IF Ran(s, "brain") THEN "done"
    ELSE "error: analysis incomplete"

\* C37: the stream of a unified analysis request ends with the event of
\* status "done" only when the analysis stage produced a final_summary and
\* no errors; when the stage reported an error or a document that is not
\* legal, the stream ends with an error event.
C37_DoneOnlyOnSuccess ==
    \A s \in Sessions :
        (/\ engine = "unified"
         /\ s \in doc_store
         /\ Ended(s)
         /\ state[s].mode = "analyze"
         /\ terminal_event(s) = "done")
        => (/\ FieldSet(state[s].final_summary)
            /\ state[s].errors = <<>>)

\* POST /chat has just answered session id s
Answers(s) == chatResp' # chatResp /\ chatResp'.to = s

\* C38: a chat request for a session id that is not in the document store
\* is answered with the not-found error before the engine is called: no
\* run starts, no stage executes, and the document store, the index and
\* every session's state are left as they were.
C38_UnknownSessionRejected ==
    [][\A s \in Sessions :
          (Answers(s) /\ s \notin doc_store)
          => (/\ chatResp'.code = "404"
              /\ UNCHANGED <<state, todo, pend, nxt, status, trace, out,
                             doc_store, index, nreq>>)]_vars

C38_Witness ==
    /\ chatResp.code = "404"
    /\ chatResp.to \notin doc_store
    /\ status[chatResp.to] = "idle"
    /\ state[chatResp.to] = EmptyState

\* ---------------------------------------------------------------------
\* What the LLM-backed stages send of raw_text; a text is given by its
\* length in characters
\* ---------------------------------------------------------------------
TextLengths ==
    {0, 1, 1999, 2000, 2001, 14999, 15000, 15001, 29999, 30000, 30001, 100000}

LLMStages == {"validator", "discovery", "analyzer", "translator", "brain"}

\* a slice that keeps the whole text
Slice_whole(n, k) == n

\* len(text[:k]) for a text of n characters
Slice(n, k) == Min(n, k)

\* the number of characters of raw_text in what the stage sends:
\* raw_text[:2000] in validator's prompt, raw_text[:30000] as discovery's
\* contract_text, raw_text[:15000] as brain's contract_text; analyzer and
\* translator send state["discovery"] and state["analysis"] only
sent_of_raw_text(stage, n) ==
    CASE stage = "validator" -> Slice(n, ValidatorLimit)
      [] stage = "discovery" -> Slice(n, DiscoveryLimit)
      [] stage = "brain" -> Slice(n, BrainLimit)
      [] OTHER -> 0

InitPrompt ==
    /\ engine \in Engines
    /\ threads = {}
    /\ InitRun
    /\ rtState = EmptyState
    /\ rtResult = "unset"
    /\ hits = NoHits
    /\ runs = <<>>
    /\ chatResp = NoResponse

\* a stage builds its request from a raw_text of n characters
PromptApply(stage, n) ==
    /\ Len(runs) < MaxRuns
    /\ (engine = "unified") = (stage = "brain")
    /\ runs' = Append(runs, [stage |-> stage, len |-> n,
                             sent |-> sent_of_raw_text(stage, n)])
    /\ UNCHANGED <<engine, threads, runVars, doc_store, index, nreq, chatVars,
                   rtState, rtResult, hits, chatResp>>

NextPrompt == \E stage \in LLMStages, n \in TextLengths : PromptApply(stage, n)

SpecPrompt == InitPrompt /\ [][NextPrompt]_vars

\* C39: no LLM-backed analysis stage sends the whole document when it is
\* longer than the stage's bound: validate sends at most the first 2000
\* characters of raw_text, discover at most the first 30000, the unified
\* analysis stage at most the first 15000, and analyze and translate send
\* nothing of raw_text; a text within the bound is sent whole.
C39_PromptBounds ==
    \A i \in DOMAIN runs :
        LET st == runs[i].stage
            bound == CASE st = "validator" -> 2000
                       [] st = "discovery" -> 30000
                       [] st = "brain" -> 15000
                       [] OTHER -> 0
        IN  /\ runs[i].sent <= bound
            /\ runs[i].sent <= runs[i].len
            /\ runs[i].len > bound => runs[i].sent < runs[i].len
            /\ (runs[i].len <= bound) => runs[i].sent = runs[i].len

C39_Witness ==
    \E i, j \in DOMAIN runs :
        /\ runs[i].stage = "validator" /\ runs[i].len = 2001 /\ runs[i].sent = 2000
        /\ runs[j].stage = "discovery" /\ runs[j].len = 30001 /\ runs[j].sent = 30000

====
